---------------------------- MODULE Spec2Model ----------------------------
(***************************************************************************)
(* Subagent orchestration of a-coder-cli.                                  *)
(*                                                                         *)
(* The Supervisor (packages/core/src/services/subagentManager.ts) is       *)
(* modelled as a state machine over a bounded number of admitted spawns.   *)
(* Every admitted spawnSubagent call owns one slot s: its ActiveSubagent   *)
(* record (status, progress), the closure variables of its promise         *)
(* executor (timeoutId, result, the promise itself) and its child process. *)
(* The Supervisor runs on Node's single-threaded event loop, so every      *)
(* handler (timer callback, abort listener, 'message', 'exit', 'error'     *)
(* listener, API call) is one atomic action.  The child process is the     *)
(* environment: it may emit any message, exit in any way and raise an      *)
(* 'error' event at any time.                                              *)
(*                                                                         *)
(* Not modelled: wall-clock values (startTime, duration) and the free-text *)
(* details field of the results the Supervisor builds itself.              *)
(***************************************************************************)
EXTENDS Integers, Sequences, FiniteSets, TLC

(***************************************************************************)
(* Bounds of the model.                                                    *)
(***************************************************************************)
\* Number of 'abort', 'message', 'exit' and 'error' events delivered in a run
\* that follows one delegation (Spec).  Timer callbacks and the calls of
\* killSubagent and killAll are not counted.
MaxEvents == 5
\* Number of admitted spawnSubagent calls in a run that follows concurrent
\* delegations (SpecConcurrent), and the events delivered in such a run.
MaxSpawns == 2
MaxConcurrentEvents == 2
\* Number of events delivered in a run that follows one delegation made
\* with any caller-supplied environment (SpecEnv).
MaxEnvEvents == 1
\* Number of events delivered to each process of a run that follows a chain
\* of nested delegations (SpecNesting).
MaxNestingEvents == 1
\* Number of events delivered in a run that follows one delegation
\* requested through SubagentTool.execute (SpecAdapter).
MaxAdapterEvents == 1
\* Largest inherited nesting depth (A_CODER_SUBAGENT_DEPTH) of the process.
MaxEnvDepth == 1
\* Number of events delivered in a run of two delegations (SpecPair).
MaxPairEvents == 3
\* Number of stream events the child agent consumes in a run (SpecChild).
MaxStreamEvents == 2
\* Number of signals and stray failures delivered to the child agent in a
\* run (SpecChild).
MaxChildEvents == 1

(***************************************************************************)
(* Program constants: DEFAULT_SUBAGENT_CONFIG.                             *)
(***************************************************************************)
DefaultMaxConcurrent == 3
DefaultMaxNestedDepth == 1

Slots == 1..MaxSpawns
\* Agent ids.  randomUUID() never repeats: the k-th admitted spawn gets id k.
Ids == 1..MaxSpawns
NoAgent == 0

(***************************************************************************)
(* SubagentStatus                                                          *)
(***************************************************************************)
STARTING == "starting"
RUNNING == "running"
COMPLETED == "completed"
FAILED == "failed"
CANCELLED == "cancelled"
SubagentStatus == {STARTING, RUNNING, COMPLETED, FAILED, CANCELLED}

(***************************************************************************)
(* SubagentResult values.  errors is an optional field, as in the source.  *)
(***************************************************************************)
\* Result payloads a child may send.
PayloadOk ==
    [success |-> TRUE, summary |-> "done", details |-> "listed 3 files"]
PayloadFail ==
    [success |-> FALSE, summary |-> "Task completed", details |-> "partial",
     errors |-> <<"Could not read context file a.txt", "stream error">>]
Payloads == {PayloadOk, PayloadFail}

\* Message of the error a child reports, and of a process 'error' event:
\* the event of a launched process to which a send failed.
ChildErrorMessage == "child crashed"
ProcessErrorMessage == "Channel closed"

\* The closure variable `result` before any Result message.
NullResult == [null |-> TRUE]

TimeoutResult ==
    [success |-> FALSE, summary |-> "Subagent timed out",
     errors |-> <<"Timeout exceeded">>]
CancelledResult ==
    [success |-> FALSE, summary |-> "Subagent cancelled",
     errors |-> <<"Cancelled by user">>]
ErrorMessageResult(message) ==
    [success |-> FALSE, summary |-> "Subagent encountered an error",
     details |-> message, errors |-> <<message>>]
TerminatedResult(signal) ==
    [success |-> FALSE, summary |-> "Subagent was terminated",
     errors |-> <<"Process terminated: " \o signal>>]
ExitCodeResult(code) ==
    [success |-> FALSE, summary |-> "Subagent process failed",
     errors |-> <<"Process exited with code " \o code>>]
\* Mutant: a clean exit without a result is reported as a failure.
NoResultAsFailure ==
    [success |-> FALSE, summary |-> "Subagent completed",
     details |-> "The subagent process completed but did not return a result.",
     errors |-> <<"No result">>]

NoResultResult ==
    [success |-> TRUE, summary |-> "Subagent completed",
     details |-> "The subagent process completed but did not return a result."]
ProcessErrorResult(message) ==
    [success |-> FALSE, summary |-> "Failed to start subagent",
     details |-> message, errors |-> <<message>>]

(***************************************************************************)
(* Inter-process messages (SubagentMessageType).                           *)
(***************************************************************************)
ReadyMsg == [type |-> "ready"]
ProgressMsg == [type |-> "progress", message |-> "Executing task..."]
LogMsg == [type |-> "log"]
ToolRequestMsg == [type |-> "tool_request"]
ResultMsg(p) == [type |-> "result", payload |-> p]
ErrorMsg == [type |-> "error", message |-> ChildErrorMessage]
Messages ==
    {ReadyMsg, ProgressMsg, LogMsg, ToolRequestMsg, ErrorMsg}
        \cup {ResultMsg(p) : p \in Payloads}

\* (code, signal) pairs of an 'exit' event: a code, or the killing signal.
\* Codes and signals are written as Node prints them.
ExitEvents ==
    {[code |-> c, signal |-> "null"] : c \in {"0", "1"}}
        \cup {[code |-> "null", signal |-> sg] :
                 sg \in {"SIGTERM", "SIGKILL", "SIGINT"}}

(***************************************************************************)
(* Process environments: a value, or Unset, for each variable name.        *)
(***************************************************************************)
SUBAGENT_MODE_ENV_VAR == "A_CODER_SUBAGENT_MODE"
SUBAGENT_CONFIG_ENV_VAR == "A_CODER_SUBAGENT_CONFIG"
SUBAGENT_DEPTH_ENV_VAR == "A_CODER_SUBAGENT_DEPTH"
ReservedKeys ==
    {SUBAGENT_MODE_ENV_VAR, SUBAGENT_CONFIG_ENV_VAR, SUBAGENT_DEPTH_ENV_VAR}
\* Two ordinary variables: one the parent process has, one it has not.
EnvKeys == ReservedKeys \cup {"HOME", "EXTRA"}
Unset == "<unset>"
NoEnv == [k \in EnvKeys |-> Unset]

\* String(n) and parseInt(text || '0', 10) on the depths of the model.
DepthValues == 0..(MaxEnvDepth + 3)
DepthString(n) == ToString(n)
ParseDepth(text) ==
    IF text = Unset THEN 0
    ELSE IF \E n \in DepthValues : DepthString(n) = text
         THEN CHOOSE n \in DepthValues : DepthString(n) = text
         ELSE -1

\* JSON.stringify of the fields createSubagentProcess hands to the child.
SerializedConfig(destructive) ==
    IF destructive THEN "{\"allowDestructive\":true}"
    ELSE "{\"allowDestructive\":false}"

\* process.env of a process running at the given depth: the top-level
\* process has none of the reserved variables, a child agent has all three.
ProcessEnv(depth) ==
    [k \in EnvKeys |->
        IF k = "HOME" THEN "/home/user"
        ELSE IF k = "EXTRA" \/ depth = 0 THEN Unset
        ELSE IF k = SUBAGENT_MODE_ENV_VAR THEN "true"
        ELSE IF k = SUBAGENT_DEPTH_ENV_VAR THEN DepthString(depth)
        ELSE SerializedConfig(FALSE)]

\* {...a, ...b}: the entries of b win.
Spread(a, b) == [k \in EnvKeys |-> IF b[k] # Unset THEN b[k] ELSE a[k]]

\* Mutant: the depth counter is passed on without the increment.
ReservedEnvSameDepth(currentDepth, destructive) ==
    [k \in EnvKeys |->
        IF k = SUBAGENT_MODE_ENV_VAR THEN "true"
        ELSE IF k = SUBAGENT_DEPTH_ENV_VAR THEN DepthString(currentDepth)
        ELSE IF k = SUBAGENT_CONFIG_ENV_VAR THEN SerializedConfig(destructive)
        ELSE Unset]

\* The three reserved entries createSubagentProcess writes.
ReservedEnv(currentDepth, destructive) ==
    [k \in EnvKeys |->
        IF k = SUBAGENT_MODE_ENV_VAR THEN "true"
        ELSE IF k = SUBAGENT_DEPTH_ENV_VAR THEN DepthString(currentDepth + 1)
        ELSE IF k = SUBAGENT_CONFIG_ENV_VAR THEN SerializedConfig(destructive)
        ELSE Unset]

\* The env of createSubagentProcess: process.env, then the reserved
\* entries, then config.env.
ChildEnv(currentDepth, destructive, env) ==
    Spread(Spread(ProcessEnv(currentDepth),
                  ReservedEnv(currentDepth, destructive)), env)

\* config.env values a caller may pass: none, ordinary variables, and each
\* reserved variable.
CallerEnvs ==
    {NoEnv,
     [NoEnv EXCEPT !["HOME"] = "/home/agent"],
     [NoEnv EXCEPT !["EXTRA"] = "1"],
     [NoEnv EXCEPT ![SUBAGENT_MODE_ENV_VAR] = "false"],
     [NoEnv EXCEPT ![SUBAGENT_DEPTH_ENV_VAR] = "0"],
     [NoEnv EXCEPT ![SUBAGENT_CONFIG_ENV_VAR] = "{}"]}

VARIABLES
    maxConcurrent,    \* this.config.maxConcurrent
    maxNestedDepth,   \* this.config.maxNestedDepth
    envDepth,         \* parseInt(process.env[SUBAGENT_DEPTH_ENV_VAR] || '0')
    lastCall,         \* outcome of the latest spawnSubagent call
    nSpawned,         \* number of admitted spawns so far
    agentId,          \* slot -> agentId of that spawn
    activeAgents,     \* this.activeAgents: id -> slot of the record, or NoAgent
    status,           \* slot -> activeAgent.status
    progress,         \* slot -> activeAgent.progress
    allowDestructive, \* slot -> config.allowDestructive
    abortSignal,      \* slot -> "none" | "armed" | "aborted" (already aborted
                      \*         when passed in) | "fired"
    timeoutId,        \* slot -> "none" | "armed" | "cleared" | "fired"
    result,           \* slot -> closure variable `result`
    promise,          \* slot -> the promise spawnSubagent returned
    firstFired,       \* slot -> history: the result the first source built
    proc,             \* slot -> "none" | "running" | "exited"
    childEnv,         \* slot -> environment the child process was forked with
    sigterm,          \* slot -> number of kill('SIGTERM') calls on the process
    connected,        \* slot -> the IPC channel has not been disconnected
    toolReplies,      \* slot -> tool_response messages sent to the child
    eventCount,       \* 'abort', 'message', 'exit', 'error' events so far
    spawnLimit,       \* bound of the run: admitted spawns
    eventLimit,       \* bound of the run: events delivered
    descriptors,      \* bound of the run: the descriptors callers pass
    requests,         \* bound of the run: the requests made of SubagentTool
    lastConfig,       \* SubagentTool.execute: the descriptor it last passed on
    toolResults,      \* SubagentTool.execute: slot -> ToolResult of the call
                      \*   awaiting that spawn; 0 -> of the latest other call
    confirmation,     \* the tool call being scheduled: what
                      \*   shouldConfirmExecute returned and the user answered
    child             \* the child agent process whose run is followed

vars ==
    <<maxConcurrent, maxNestedDepth, envDepth, lastCall, nSpawned, agentId,
      activeAgents, status, progress, allowDestructive, abortSignal,
      timeoutId, result, promise, firstFired, proc, childEnv, sigterm,
      connected, toolReplies, eventCount, spawnLimit, eventLimit,
      descriptors, requests, lastConfig, toolResults, confirmation,
      child>>

\* What SubagentTool.execute keeps: no SubagentManager handler writes it.
adapterVars == <<lastConfig, toolResults, confirmation>>

\* The configuration, the environment, the bounds and the child process that
\* is followed on its own: no handler of the Supervisor or of SubagentTool
\* writes them.
configVars ==
    <<maxConcurrent, maxNestedDepth, envDepth, spawnLimit, eventLimit,
      descriptors, requests, child>>

\* The errors spawnSubagent throws.
ErrMaxConcurrent == "Maximum concurrent subagents reached"
ErrMaxNestingDepth == "Maximum subagent nesting depth reached"

Pending == [state |-> "pending"]
Fulfilled(r) == [state |-> "fulfilled", value |-> r]
Rejected(e) == [state |-> "rejected", reason |-> e]
NotFired == [fired |-> FALSE]

\* activeAgents.size
ActiveCount == Cardinality({id \in Ids : activeAgents[id] # NoAgent})
\* getActiveCount()
GetActiveCount == ActiveCount
\* listActive(): the records in the map
ListActive == {activeAgents[id] : id \in {i \in Ids : activeAgents[i] # NoAgent}}

(***************************************************************************)
(* The part of the state that cleanup and killSubagent write, as a value,  *)
(* so that handlers calling one another compose.                           *)
(***************************************************************************)
Heap ==
    [active |-> activeAgents, status |-> status, sigterm |-> sigterm,
     connected |-> connected]

Commit(h) ==
    /\ activeAgents' = h.active
    /\ status' = h.status
    /\ sigterm' = h.sigterm
    /\ connected' = h.connected

\* Mutant: cleanup empties the whole map.
CleanupEverything(h, id) ==
    IF h.active[id] # NoAgent
    THEN [h EXCEPT !.connected = [x \in Slots |-> FALSE],
                   !.active = [i \in Ids |-> NoAgent]]
    ELSE h

\* Mutant: cleanup disconnects but leaves the entry in the map.
CleanupKeepsEntry(h, id) ==
    IF h.active[id] # NoAgent
    THEN [h EXCEPT !.connected[h.active[id]] = FALSE]
    ELSE h

\* cleanup(agentId): disconnect the channel of the record found under the
\* id, if any, and delete the entry.
Cleanup(h, id) ==
    IF h.active[id] # NoAgent
    THEN [h EXCEPT !.connected[h.active[id]] = FALSE,
                   !.active[id] = NoAgent]
    ELSE h

\* Mutant: killSubagent forgets process.kill.
KillSubagentNoSignal(h, id) ==
    IF h.active[id] # NoAgent
    THEN Cleanup([h EXCEPT !.status[h.active[id]] = CANCELLED], id)
    ELSE h

\* killSubagent(agentId): mark the record found under the id CANCELLED,
\* SIGTERM its process and clean up.  No effect when the id has no record.
KillSubagent(h, id) ==
    IF h.active[id] # NoAgent
    THEN Cleanup([h EXCEPT !.status[h.active[id]] = CANCELLED,
                           !.sigterm[h.active[id]] = @ + 1], id)
    ELSE h

\* Mutant: the timer is left armed.
ClearTimeoutForgotten(t) == t

\* clearTimeout(timeoutId) guarded by `if (timeoutId)`.
ClearTimeout(t) == IF t = "armed" THEN "cleared" ELSE t

\* Mutant: a result holder the latest source overwrites.
ResolveOverwrites(p, r) == Fulfilled(r)

\* resolve(r) of a JavaScript promise: only the first call settles it.
Resolve(p, r) == IF p.state = "pending" THEN Fulfilled(r) ELSE p

\* History of the first result any resolution source built.
FirstOf(f, r) == IF f = NotFired THEN r ELSE f

\* SubagentTool.execute has passed no descriptor on; no call has returned.
NoConfig == [kind |-> "none"]
NoToolResult == [kind |-> "none"]
\* No child process is followed.
NoChild == [pc |-> "none"]

(***************************************************************************)
(* Init: a freshly constructed SubagentManager in a process whose          *)
(* inherited depth is envDepth.                                            *)
(***************************************************************************)
InitManager ==
    /\ maxConcurrent \in 1..DefaultMaxConcurrent
    /\ maxNestedDepth = DefaultMaxNestedDepth
    /\ envDepth \in 0..MaxEnvDepth
    /\ lastCall = "none"
    /\ nSpawned = 0
    /\ agentId = [s \in Slots |-> NoAgent]
    /\ activeAgents = [id \in Ids |-> NoAgent]
    /\ status = [s \in Slots |-> STARTING]
    /\ progress = [s \in Slots |-> "Initializing..."]
    /\ allowDestructive = [s \in Slots |-> FALSE]
    /\ abortSignal = [s \in Slots |-> "none"]
    /\ timeoutId = [s \in Slots |-> "none"]
    /\ result = [s \in Slots |-> NullResult]
    /\ promise = [s \in Slots |-> Pending]
    /\ firstFired = [s \in Slots |-> NotFired]
    /\ proc = [s \in Slots |-> "none"]
    /\ childEnv = [s \in Slots |-> NoEnv]
    /\ sigterm = [s \in Slots |-> 0]
    /\ connected = [s \in Slots |-> FALSE]
    /\ toolReplies = [s \in Slots |-> <<>>]
    /\ eventCount = 0
    /\ lastConfig = NoConfig
    /\ toolResults = [i \in {0} \cup Slots |-> NoToolResult]
    /\ confirmation = "unasked"

InitState ==
    /\ InitManager
    /\ child = NoChild

\* What a descriptor contributes to the Supervisor: whether it carries a
\* cancellation token ("armed"), one that was already aborted ("aborted") or
\* none, and its allowDestructive flag.
Descriptors ==
    [abort : {"none", "armed", "aborted"}, destructive : BOOLEAN,
     env : CallerEnvs]

\* One delegation with any descriptor, followed through every event.
Init ==
    /\ InitState
    /\ spawnLimit = 1
    /\ eventLimit = MaxEvents
    /\ descriptors = {d \in Descriptors : d.env = NoEnv}
    /\ requests = {}

\* Concurrent delegations.  Every descriptor carries a token: a run in which
\* the token never fires is the run of a descriptor without one.
InitConcurrent ==
    /\ InitState
    /\ spawnLimit = MaxSpawns
    /\ eventLimit = MaxConcurrentEvents
    /\ descriptors = {[abort |-> "armed", destructive |-> FALSE, env |-> NoEnv]}
    /\ requests = {}

\* One delegation whose descriptor carries any of the caller environments.
InitEnv ==
    /\ InitState
    /\ spawnLimit = 1
    /\ eventLimit = MaxEnvEvents
    /\ descriptors = {d \in Descriptors : d.abort = "armed"}
    /\ requests = {}

\* A chain of nested delegations, starting in the top-level process.  The
\* descriptors are the ones SubagentTool.execute builds: a token always, no
\* env.
InitNesting ==
    /\ InitState
    /\ envDepth = 0
    /\ spawnLimit = 1
    /\ eventLimit = MaxNestingEvents
    /\ descriptors = {d \in Descriptors : d.abort # "none" /\ d.env = NoEnv}
    /\ requests = {}

Spawned(s) == s <= nSpawned

(***************************************************************************)
(* spawnSubagent(config)                                                   *)
(***************************************************************************)
\* Mutant: the gate is off by one.
ConcurrentLimitExceeded == ActiveCount > maxConcurrent

\* The concurrency gate.
ConcurrentLimitReached == ActiveCount >= maxConcurrent

\* Mutant: the gate is off by one.
NestingLimitExceeded == envDepth > maxNestedDepth

\* The nesting gate.
NestingLimitReached == envDepth >= maxNestedDepth

slotVars ==
    <<nSpawned, agentId, activeAgents, status, progress, allowDestructive,
      abortSignal, timeoutId, result, promise, firstFired, proc, childEnv,
      sigterm, connected, toolReplies, eventCount>>

\* The call throws before any process exists.
SpawnThrows(err) ==
    /\ lastCall' = err
    /\ UNCHANGED slotVars

\* The admitted path: create the process, register the record, install the
\* listeners and arm the timer.
SpawnAdmitted(id, abort, destructive, env) ==
    LET s == nSpawned + 1 IN
    /\ nSpawned < spawnLimit
    /\ lastCall' = "admitted"
    /\ nSpawned' = s
    /\ agentId' = [agentId EXCEPT ![s] = id]
    /\ proc' = [proc EXCEPT ![s] = "running"]
    /\ childEnv' = [childEnv EXCEPT ![s] = ChildEnv(envDepth, destructive, env)]
    /\ connected' = [connected EXCEPT ![s] = TRUE]
    /\ activeAgents' = [activeAgents EXCEPT ![id] = s]
    /\ status' = [status EXCEPT ![s] = STARTING]
    /\ progress' = [progress EXCEPT ![s] = "Initializing..."]
    /\ allowDestructive' = [allowDestructive EXCEPT ![s] = destructive]
    /\ abortSignal' = [abortSignal EXCEPT ![s] = abort]
    /\ timeoutId' = [timeoutId EXCEPT ![s] = "armed"]
    /\ UNCHANGED <<result, promise, firstFired, sigterm, toolReplies, eventCount>>

SpawnSubagent(id, abort, destructive, env) ==
    /\ UNCHANGED configVars
    /\ IF ConcurrentLimitReached
       THEN SpawnThrows(ErrMaxConcurrent)
       ELSE IF NestingLimitReached
            THEN SpawnThrows(ErrMaxNestingDepth)
            ELSE SpawnAdmitted(id, abort, destructive, env)

(***************************************************************************)
(* The timer callback of setupTimeout.                                     *)
(***************************************************************************)
OnTimeout(s) ==
    /\ Spawned(s)
    /\ timeoutId[s] = "armed"
    /\ timeoutId' = [timeoutId EXCEPT ![s] = "fired"]
    /\ Commit(KillSubagent([Heap EXCEPT !.status[s] = CANCELLED], agentId[s]))
    /\ promise' = [promise EXCEPT ![s] = Resolve(@, TimeoutResult)]
    /\ firstFired' = [firstFired EXCEPT ![s] = FirstOf(@, TimeoutResult)]
    /\ UNCHANGED <<configVars, adapterVars, lastCall, nSpawned, agentId,
                   progress,
                   allowDestructive, abortSignal, result, proc, childEnv,
                   toolReplies, eventCount>>

(***************************************************************************)
(* abortHandler: the 'abort' listener on config.abortSignal.  An           *)
(* AbortSignal dispatches 'abort' once, and not at all to a listener added *)
(* after it was aborted.                                                   *)
(***************************************************************************)
OnAbort(s) ==
    /\ Spawned(s)
    /\ abortSignal[s] = "armed"
    /\ eventCount < eventLimit
    /\ eventCount' = eventCount + 1
    /\ abortSignal' = [abortSignal EXCEPT ![s] = "fired"]
    /\ timeoutId' = [timeoutId EXCEPT ![s] = ClearTimeout(@)]
    /\ Commit(KillSubagent([Heap EXCEPT !.status[s] = CANCELLED], agentId[s]))
    /\ promise' = [promise EXCEPT ![s] = Resolve(@, CancelledResult)]
    /\ firstFired' = [firstFired EXCEPT ![s] = FirstOf(@, CancelledResult)]
    /\ UNCHANGED <<configVars, adapterVars, lastCall, nSpawned, agentId,
                   progress,
                   allowDestructive, result, proc, childEnv, toolReplies>>

(***************************************************************************)
(* childProcess.on('message'): handleSubagentMessage, then the terminal    *)
(* branches.                                                               *)
(***************************************************************************)
\* Mutant: every tool request is approved.
ToolResponseApproves(s) == [approved |-> TRUE, reached |-> connected[s]]

\* The tool_response sent for a tool_request; `reached` tells whether the
\* channel was still connected when it was sent.
ToolResponse(s) ==
    IF allowDestructive[s]
    THEN [approved |-> TRUE, reached |-> connected[s]]
    ELSE [approved |-> FALSE, reason |-> "Destructive tools not allowed",
          reached |-> connected[s]]

\* Mutant: a Progress message also marks the record Running.
HandledStatusOnProgress(st, m) ==
    IF m.type \in {"ready", "progress"} THEN RUNNING ELSE st

\* handleSubagentMessage: the status it leaves in the record.
HandledStatus(st, m) == IF m.type = "ready" THEN RUNNING ELSE st

\* handleSubagentMessage: the progress text it leaves in the record.
HandledProgress(pr, m) ==
    IF m.type = "ready" THEN "Working on task..."
    ELSE IF m.type = "progress" THEN m.message
    ELSE pr

\* The status a Result payload gives the record.
ResultStatus(p) == IF p.success THEN COMPLETED ELSE FAILED

OnMessage(s, m) ==
    /\ Spawned(s)
    /\ eventCount < eventLimit
    /\ eventCount' = eventCount + 1
    /\ progress' = [progress EXCEPT ![s] = HandledProgress(@, m)]
    /\ toolReplies' =
           [toolReplies EXCEPT
               ![s] = IF m.type = "tool_request"
                      THEN Append(@, ToolResponse(s)) ELSE @]
    /\ IF m.type = "result"
       THEN /\ result' = [result EXCEPT ![s] = m.payload]
            /\ timeoutId' = [timeoutId EXCEPT ![s] = ClearTimeout(@)]
            /\ Commit(Cleanup([Heap EXCEPT !.status[s] = ResultStatus(m.payload)],
                              agentId[s]))
            /\ promise' = [promise EXCEPT ![s] = Resolve(@, m.payload)]
            /\ firstFired' = [firstFired EXCEPT ![s] = FirstOf(@, m.payload)]
       ELSE IF m.type = "error"
       THEN /\ timeoutId' = [timeoutId EXCEPT ![s] = ClearTimeout(@)]
            /\ Commit(Cleanup([Heap EXCEPT !.status[s] = FAILED], agentId[s]))
            /\ promise' =
                   [promise EXCEPT
                       ![s] = Resolve(@, ErrorMessageResult(m.message))]
            /\ firstFired' =
                   [firstFired EXCEPT
                       ![s] = FirstOf(@, ErrorMessageResult(m.message))]
            /\ UNCHANGED result
       ELSE /\ Commit([Heap EXCEPT !.status[s] = HandledStatus(@, m)])
            /\ UNCHANGED <<timeoutId, result, promise, firstFired>>
    /\ UNCHANGED <<configVars, adapterVars, lastCall, nSpawned, agentId,
                   allowDestructive,
                   abortSignal, proc, childEnv>>

(***************************************************************************)
(* childProcess.on('exit')                                                 *)
(***************************************************************************)
\* Mutant: the exit handler looks at the exit code only.
ExitResultByCodeOnly(code, signal) ==
    IF code = "1" THEN ExitCodeResult(code) ELSE NoResultResult

\* The result the exit handler builds when no Result message was received.
ExitResult(code, signal) ==
    IF signal = "SIGTERM" \/ signal = "SIGKILL"
    THEN TerminatedResult(signal)
    ELSE IF code # "0" THEN ExitCodeResult(code)
    ELSE NoResultResult

\* Mutant: the test of `result` is inverted.
ExitSettlesInverted(r) == r # NullResult

\* `if (!result)`: the exit handler settles only when no Result was received.
ExitSettles(r) == r = NullResult

OnExit(s, e) ==
    /\ Spawned(s)
    /\ proc[s] = "running"
    /\ eventCount < eventLimit
    /\ eventCount' = eventCount + 1
    /\ proc' = [proc EXCEPT ![s] = "exited"]
    /\ timeoutId' = [timeoutId EXCEPT ![s] = ClearTimeout(@)]
    /\ activeAgents' = [activeAgents EXCEPT ![agentId[s]] = NoAgent]
    /\ IF ExitSettles(result[s])
       THEN /\ promise' =
                   [promise EXCEPT
                       ![s] = Resolve(@, ExitResult(e.code, e.signal))]
            /\ firstFired' =
                   [firstFired EXCEPT
                       ![s] = FirstOf(@, ExitResult(e.code, e.signal))]
       ELSE UNCHANGED <<promise, firstFired>>
    /\ UNCHANGED <<configVars, adapterVars, lastCall, nSpawned, agentId,
                   status, progress,
                   allowDestructive, abortSignal, result, childEnv, sigterm,
                   connected, toolReplies>>

(***************************************************************************)
(* childProcess.on('error')                                                *)
(***************************************************************************)
\* Mutant: the 'error' listener rejects the promise.
RejectProcessError(p) ==
    IF p.state = "pending" THEN Rejected(ProcessErrorMessage) ELSE p

\* The 'error' listener settles the promise with a failed result.
ResolveProcessError(p) == Resolve(p, ProcessErrorResult(ProcessErrorMessage))

OnError(s) ==
    /\ Spawned(s)
    /\ eventCount < eventLimit
    /\ eventCount' = eventCount + 1
    /\ timeoutId' = [timeoutId EXCEPT ![s] = ClearTimeout(@)]
    /\ Commit(Cleanup([Heap EXCEPT !.status[s] = FAILED], agentId[s]))
    /\ promise' = [promise EXCEPT ![s] = ResolveProcessError(@)]
    /\ firstFired' =
           [firstFired EXCEPT
               ![s] = FirstOf(@, ProcessErrorResult(ProcessErrorMessage))]
    /\ UNCHANGED <<configVars, adapterVars, lastCall, nSpawned, agentId,
                   progress,
                   allowDestructive, abortSignal, result, proc, childEnv,
                   toolReplies>>

(***************************************************************************)
(* The public killSubagent(agentId) and killAll() calls.                   *)
(***************************************************************************)
\* Mutant: killSubagent also resolves the spawn of the record it removes.
KillSubagentCallResolves(id) ==
    /\ Commit(KillSubagent(Heap, id))
    /\ promise' =
           [s \in Slots |->
               IF activeAgents[id] = s
               THEN Resolve(promise[s], CancelledResult) ELSE promise[s]]
    /\ UNCHANGED <<configVars, adapterVars, lastCall, nSpawned, agentId,
                   progress,
                   allowDestructive, abortSignal, timeoutId, result,
                   firstFired, proc, childEnv, toolReplies, eventCount>>

KillSubagentCall(id) ==
    /\ Commit(KillSubagent(Heap, id))
    /\ UNCHANGED <<configVars, adapterVars, lastCall, nSpawned, agentId,
                   progress,
                   allowDestructive, abortSignal, timeoutId, result, promise,
                   firstFired, proc, childEnv, toolReplies, eventCount>>

\* Mutant: removing the visited entry makes the iteration skip the next one.
RECURSIVE KillFromSkipping(_, _)
KillFromSkipping(h, id) ==
    IF id > MaxSpawns THEN h
    ELSE KillFromSkipping(KillSubagent(h, id), id + 2)

\* killAll visits the entries in insertion order; ids are handed out in
\* increasing order.
RECURSIVE KillFrom(_, _)
KillFrom(h, id) ==
    IF id > MaxSpawns THEN h ELSE KillFrom(KillSubagent(h, id), id + 1)

KillAll ==
    /\ Commit(KillFrom(Heap, 1))
    /\ UNCHANGED <<configVars, adapterVars, lastCall, nSpawned, agentId,
                   progress,
                   allowDestructive, abortSignal, timeoutId, result, promise,
                   firstFired, proc, childEnv, toolReplies, eventCount>>

(***************************************************************************)
(* The specification.                                                      *)
(***************************************************************************)
\* randomUUID(): an id no earlier spawn had.
FreshId == nSpawned + 1

Next ==
    \/ /\ \E d \in descriptors :
              SpawnSubagent(FreshId, d.abort, d.destructive, d.env)
       /\ UNCHANGED adapterVars
    \/ \E s \in Slots : OnTimeout(s)
    \/ \E s \in Slots : OnAbort(s)
    \/ \E s \in Slots, m \in Messages : OnMessage(s, m)
    \/ \E s \in Slots, e \in ExitEvents : OnExit(s, e)
    \/ \E s \in Slots : OnError(s)
    \/ \E id \in Ids : KillSubagentCall(id)
    \/ KillAll

Spec == Init /\ [][Next]_vars

SpecConcurrent == InitConcurrent /\ [][Next]_vars

SpecEnv == InitEnv /\ [][Next]_vars

\* Two delegations at once in a top-level process with the default
\* configuration.
InitPair ==
    /\ InitState
    /\ maxConcurrent = DefaultMaxConcurrent
    /\ envDepth = 0
    /\ spawnLimit = 2
    /\ eventLimit = MaxPairEvents
    /\ descriptors = {[abort |-> "armed", destructive |-> FALSE, env |-> NoEnv]}
    /\ requests = {}

SpecPair == InitPair /\ [][Next]_vars

\* Two delegations whose descriptors carry ids chosen by the caller
\* (config.id), which may coincide.
NextReuse ==
    \/ /\ \E id \in Ids, d \in descriptors :
              SpawnSubagent(id, d.abort, d.destructive, d.env)
       /\ UNCHANGED adapterVars
    \/ \E s \in Slots : OnTimeout(s)
    \/ \E s \in Slots : OnAbort(s)
    \/ \E s \in Slots, m \in Messages : OnMessage(s, m)
    \/ \E s \in Slots, e \in ExitEvents : OnExit(s, e)
    \/ \E s \in Slots : OnError(s)
    \/ \E id \in Ids : KillSubagentCall(id)
    \/ KillAll

SpecReuse == InitPair /\ [][NextReuse]_vars

\* The child agent of spawn s runs the same program: a fresh SubagentManager
\* in a process whose environment is the one it was forked with.  The model
\* follows it.
Descend(s) ==
    /\ Spawned(s)
    /\ proc[s] = "running"
    /\ envDepth' = ParseDepth(childEnv[s][SUBAGENT_DEPTH_ENV_VAR])
    /\ lastCall' = "none"
    /\ nSpawned' = 0
    /\ agentId' = [x \in Slots |-> NoAgent]
    /\ activeAgents' = [id \in Ids |-> NoAgent]
    /\ status' = [x \in Slots |-> STARTING]
    /\ progress' = [x \in Slots |-> "Initializing..."]
    /\ allowDestructive' = [x \in Slots |-> FALSE]
    /\ abortSignal' = [x \in Slots |-> "none"]
    /\ timeoutId' = [x \in Slots |-> "none"]
    /\ result' = [x \in Slots |-> NullResult]
    /\ promise' = [x \in Slots |-> Pending]
    /\ firstFired' = [x \in Slots |-> NotFired]
    /\ proc' = [x \in Slots |-> "none"]
    /\ childEnv' = [x \in Slots |-> NoEnv]
    /\ sigterm' = [x \in Slots |-> 0]
    /\ connected' = [x \in Slots |-> FALSE]
    /\ toolReplies' = [x \in Slots |-> <<>>]
    /\ eventCount' = 0
    /\ UNCHANGED <<maxConcurrent, maxNestedDepth, spawnLimit, eventLimit,
                   descriptors, requests, adapterVars, child>>

NextNesting ==
    \/ Next
    \/ \E s \in Slots : Descend(s)

SpecNesting == InitNesting /\ [][NextNesting]_vars

\* The armed timer of an admitted spawn eventually fires unless it is cleared
\* (setTimeout on a live event loop).
FairSpec == Spec /\ \A s \in Slots : WF_vars(OnTimeout(s))

(***************************************************************************)
(* SubagentTool: the parameters of a request, their validation and the     *)
(* descriptor execute builds from them.                                    *)
(***************************************************************************)
MinTimeout == 1000
MaxTimeout == 600000
DefaultTimeout == 300000

DefaultAllowedTools ==
    <<"read_file", "read_many_files", "glob", "grep", "list_directory",
      "web_fetch", "web_search", "save_memory">>
DestructiveTools == <<"edit", "write_file", "shell">>

\* JavaScript values of params.timeout: absent, a number, NaN, or a text
\* that is not a number.
Undefined == [kind |-> "undefined"]
NaN == [kind |-> "NaN"]
Num(n) == [kind |-> "number", value |-> n]
Text(t) == [kind |-> "text", text |-> t]
Array(items) == [kind |-> "array", items |-> items]

\* Truthiness, as `if (v)` and `v || d` see it.
Truthy(v) ==
    /\ v.kind \notin {"undefined", "NaN"}
    /\ v.kind = "number" => v.value # 0

\* v < n and v > n: false unless v is a number (a text that is not a number
\* converts to NaN).
LessThan(v, n) == v.kind = "number" /\ v.value < n
GreaterThan(v, n) == v.kind = "number" /\ v.value > n

\* Math.min(v, n)
MathMin(v, n) ==
    IF v.kind = "number" THEN Num(IF v.value < n THEN v.value ELSE n)
    ELSE NaN

\* task.trim().length === 0
IsBlank(task) == task \in {"", "   "}

\* The requests of the model.
TimeoutParams ==
    {Undefined, NaN, Text("soon"), Num(0), Num(MinTimeout - 1),
     Num(MinTimeout), Num(MaxTimeout), Num(MaxTimeout + 1)}
AllowedToolsParams ==
    {Undefined, Array(<<>>), Array(<<"grep">>), Array(<<"edit">>),
     Array(<<"read_file", "shell">>)}
ToolParams ==
    [task : {"", "   ", "list the files"},
     timeout : TimeoutParams,
     allowedTools : AllowedToolsParams,
     allowDestructive : BOOLEAN]

NoError == "null"

ValidateToolParams(params) ==
    IF IsBlank(params.task) THEN "Task description is required"
    ELSE IF Truthy(params.timeout) /\ LessThan(params.timeout, MinTimeout)
    THEN "Timeout must be at least 1000ms (1 second)"
    ELSE IF Truthy(params.timeout) /\ GreaterThan(params.timeout, MaxTimeout)
    THEN "Timeout cannot exceed 600000ms (10 minutes)"
    ELSE IF /\ params.allowedTools # Undefined
            /\ Len(params.allowedTools.items) = 0
    THEN "If specified, allowedTools must contain at least one tool"
    ELSE NoError

\* The descriptor execute builds: the fields the claims speak of.
BuildConfig(params) ==
    LET tools == IF params.allowedTools # Undefined
                 THEN params.allowedTools.items ELSE DefaultAllowedTools
    IN  [kind |-> "config",
         allowedTools |->
             IF params.allowDestructive THEN tools \o DestructiveTools
             ELSE tools,
         timeout |->
             MathMin(IF Truthy(params.timeout) THEN params.timeout
                     ELSE Num(DefaultTimeout), MaxTimeout),
         allowDestructive |-> params.allowDestructive]

(***************************************************************************)
(* Steps, as the properties below name them.                               *)
(***************************************************************************)
\* A spawnSubagent call.
SpawnCall ==
    \E d \in descriptors : SpawnSubagent(FreshId, d.abort, d.destructive, d.env)

\* A resolution source of spawn s fires.
SourceFires(s) ==
    \/ OnTimeout(s)
    \/ OnAbort(s)
    \/ \E m \in {x \in Messages : x.type \in {"result", "error"}} :
           OnMessage(s, m)
    \/ \E e \in ExitEvents : OnExit(s, e)
    \/ OnError(s)

IsPending(s) == promise[s] = Pending
IsFulfilled(s) == promise[s].state = "fulfilled"

(***************************************************************************)
(* SubagentTool.execute and the specification of a delegation made through *)
(* it.                                                                     *)
(***************************************************************************)
\* ToolResults of execute: for invalid parameters, for an error thrown by
\* spawnSubagent, and formatResult of a SubagentResult.
InvalidParameters(err) ==
    [kind |-> "returned", summary |-> "Invalid parameters",
     llmContent |-> <<"Error: ", err>>, returnDisplay |-> <<"Error: ", err>>]
FailedToSpawn(err) ==
    [kind |-> "returned", summary |-> "Failed to spawn subagent",
     llmContent |-> <<"Error spawning subagent: ", err>>,
     returnDisplay |-> <<"Error: ", err>>]
HasErrors(r) == "errors" \in DOMAIN r /\ Len(r.errors) > 0

\* list.join(sep), as the pieces of the text it builds.
RECURSIVE Join(_, _)
Join(list, sep) ==
    IF Len(list) = 0 THEN <<>>
    ELSE IF Len(list) = 1 THEN <<list[1]>>
    ELSE <<list[1], sep>> \o Join(Tail(list), sep)

\* formatResult with the errors left out of the display text.
FormatResultSummaryOnly(r) ==
    [kind |-> "returned", summary |-> r.summary,
     llmContent |-> <<"## Subagent Result", r.success, r.summary>>,
     returnDisplay |-> <<r.summary>>]
\* formatResult: the texts are kept as the sequence of their pieces.
FormatResult(r) ==
    [kind |-> "returned", summary |-> r.summary,
     llmContent |->
         <<"## Subagent Result", r.success, r.summary,
           IF "details" \in DOMAIN r THEN <<"### Details", r.details>>
           ELSE <<>>,
           IF HasErrors(r) THEN <<"### Errors", r.errors>> ELSE <<>> >>,
     returnDisplay |->
         IF HasErrors(r)
         THEN <<r.summary, "Errors: ">> \o Join(r.errors, "; ")
         ELSE <<r.summary>>]
Awaiting == [kind |-> "awaiting"]

\* execute, up to its await: validation, the descriptor, the spawnSubagent
\* call and the catch of what that call throws.  The signal passed in is the
\* descriptor's cancellation token.
Execute(params, signal) ==
    IF ValidateToolParams(params) # NoError
    THEN /\ toolResults' =
                [toolResults EXCEPT
                    ![0] = InvalidParameters(ValidateToolParams(params))]
         /\ UNCHANGED <<configVars, lastConfig, lastCall, slotVars>>
    ELSE /\ lastConfig' = BuildConfig(params)
         /\ SpawnSubagent(FreshId, signal, BuildConfig(params).allowDestructive,
                          NoEnv)
         /\ toolResults' =
                IF lastCall' = "admitted"
                THEN [toolResults EXCEPT ![nSpawned'] = Awaiting]
                ELSE [toolResults EXCEPT ![0] = FailedToSpawn(lastCall')]

\* execute, after its await: the spawn has resolved and the result is
\* formatted.
ExecuteReturns(s) ==
    /\ toolResults[s] = Awaiting
    /\ IsFulfilled(s)
    /\ toolResults' = [toolResults EXCEPT ![s] = FormatResult(promise[s].value)]
    /\ UNCHANGED <<configVars, lastConfig, confirmation, lastCall, slotVars>>

\* shouldConfirmExecute: the confirmation details of a request for
\* destructive tools, false for any other request.
NoConfirmation == [kind |-> "false"]
NeverConfirm(params) == NoConfirmation
ShouldConfirmExecute(params) ==
    IF params.allowDestructive
    THEN [kind |-> "details", type |-> "exec",
          title |-> "Spawn Subagent with Destructive Tools",
          rootCommand |-> "subagent"]
    ELSE NoConfirmation

\* The caller of the tool asks shouldConfirmExecute first: details returned
\* are put to the user, false lets the call go on.
AskConfirmation(params) ==
    /\ confirmation \in {"unasked", "executed", "executed_confirmed"}
    /\ confirmation' =
           IF ShouldConfirmExecute(params) = NoConfirmation
           THEN "not_required" ELSE "awaiting"
    /\ UNCHANGED <<configVars, lastConfig, toolResults, lastCall, slotVars>>

\* The user's answer to the details: proceed, or cancel, which ends the call
\* before execute.
UserAnswers(answer) ==
    /\ confirmation = "awaiting"
    /\ confirmation' = IF answer = "proceed" THEN "proceed" ELSE "unasked"
    /\ UNCHANGED <<configVars, lastConfig, toolResults, lastCall, slotVars>>

\* The caller runs execute once no confirmation is needed or the user said
\* proceed.
ScheduledExecute(params, signal) ==
    /\ confirmation \in {"not_required", "proceed"}
    /\ confirmation' =
           IF confirmation = "proceed" THEN "executed_confirmed"
           ELSE "executed"
    /\ Execute(params, signal)

\* A request: the parameters and the AbortSignal execute is called with.
Requests == [params : ToolParams, signal : {"armed", "aborted"}]

\* The delegations of one request made through the tool, with any
\* parameters.
InitAdapter ==
    /\ InitState
    /\ spawnLimit = 1
    /\ eventLimit = MaxAdapterEvents
    /\ descriptors = {}
    /\ requests \in {{r} : r \in Requests}

NextAdapter ==
    \/ \E r \in requests : AskConfirmation(r.params)
    \/ \E answer \in {"proceed", "cancel"} : UserAnswers(answer)
    \/ \E r \in requests : ScheduledExecute(r.params, r.signal)
    \/ \E s \in Slots : ExecuteReturns(s)
    \/ \E s \in Slots : OnTimeout(s)
    \/ \E s \in Slots : OnAbort(s)
    \/ \E s \in Slots, m \in Messages : OnMessage(s, m)
    \/ \E s \in Slots, e \in ExitEvents : OnExit(s, e)
    \/ \E s \in Slots : OnError(s)

SpecAdapter == InitAdapter /\ [][NextAdapter]_vars

(***************************************************************************)
(* The child agent entry (cli/src/subagent.ts): the process the Supervisor *)
(* forks.  It runs its own event loop; `child` holds its state as one      *)
(* record.                                                                 *)
(***************************************************************************)
ChildDefaultTimeout == 300000

\* The value of an environment variable holding JSON: unset, the empty
\* text, a text that is no JSON, or JSON.stringify of a value.
\* JSON.stringify(value) is [kind |-> "json", value |-> value]; JSON.parse
\* gives the value back and throws for any other text.

\* The object createSubagentProcess serializes for the child: the fields it
\* lists, those that are undefined being dropped by JSON.stringify.
ConfigForChild(d) ==
    [task |-> "list the files", contextFiles |-> d.contextFiles,
     allowDestructive |-> d.allowDestructive]

\* The two reserved variables the entry reads, as createSubagentProcess
\* sets them for descriptor d.
LaunchedBySupervisor(d) ==
    [mode |-> "true",
     config |-> [kind |-> "json", value |-> ConfigForChild(d)]]

\* Environments the entry refuses: started outside child-agent mode, without
\* a descriptor, or with one that is no JSON.
RefusedLaunches(d) ==
    {[mode |-> Unset, config |-> LaunchedBySupervisor(d).config],
     [mode |-> "1", config |-> LaunchedBySupervisor(d).config],
     [mode |-> "true", config |-> [kind |-> "unset"]],
     [mode |-> "true", config |-> [kind |-> "empty"]],
     [mode |-> "true", config |-> [kind |-> "malformed"]]}

\* A process that has not run its entry yet.
ChildLaunched(d, env) ==
    [pc |-> "entry", descriptor |-> d, env |-> env,
     contextFiles |-> <<>>, configTimeout |-> Undefined,
     outbox |-> <<>>, errors |-> <<>>, files |-> <<>>, filesRead |-> <<>>,
     responseText |-> "", streamed |-> 0, timer |-> "none", timerMs |-> 0,
     aborted |-> FALSE, exitTimers |-> <<>>, exit |-> "none", events |-> 0]

\* sendMessage, sendProgress, sendResult and sendError: the message goes
\* out, and the last two schedule process.exit 100 ms later.
SendMessage(c, m) == [c EXCEPT !.outbox = Append(@, m)]
SendProgress(c, text) ==
    SendMessage(c, [type |-> "progress", message |-> text])
SendResult(c, r) ==
    [SendMessage(c, [type |-> "result", payload |-> r])
        EXCEPT !.exitTimers = Append(@, IF r.success THEN "0" ELSE "1")]
SendError(c, message) ==
    [SendMessage(c, [type |-> "error", message |-> message])
        EXCEPT !.exitTimers = Append(@, "1")]

\* extractSummary(responseText) || 'Task completed': extractSummary gives
\* null for an empty response, else its first paragraph.
SummaryOf(text) == IF text = "" THEN "Task completed" ELSE text

\* Mutant: the result of a completed run leaves the collected errors out.
CompletedResultWithoutErrors(c) ==
    [success |-> Len(c.errors) = 0, summary |-> SummaryOf(c.responseText),
     details |-> c.responseText]

\* Mutant: the result of a completed run is always a success.
CompletedResultAlwaysSuccess(c) ==
    IF Len(c.errors) > 0
    THEN [success |-> TRUE, summary |-> SummaryOf(c.responseText),
          details |-> c.responseText, errors |-> c.errors]
    ELSE [success |-> TRUE, summary |-> SummaryOf(c.responseText),
          details |-> c.responseText]

\* The result runSubagent builds when the stream is over.
CompletedResult(c) ==
    IF Len(c.errors) > 0
    THEN [success |-> Len(c.errors) = 0, summary |-> SummaryOf(c.responseText),
          details |-> c.responseText, errors |-> c.errors]
    ELSE [success |-> Len(c.errors) = 0, summary |-> SummaryOf(c.responseText),
          details |-> c.responseText]

\* The catch block of runSubagent and the result it builds.
Catch(c, errorMessage) ==
    [SendResult(c, [success |-> FALSE,
                    summary |-> "Subagent failed with an error",
                    details |-> errorMessage, errors |-> <<errorMessage>>])
        EXCEPT !.pc = "returned"]

\* From sendProgress('Executing task...') to the stream: without a client
\* an Error is sent, else the abort timer is armed.
BeginStream(c, client) ==
    LET c1 == SendProgress(c, "Executing task...")
    IN  IF ~client
        THEN [SendError(c1, "Failed to initialize AI client")
                 EXCEPT !.pc = "returned"]
        ELSE [c1 EXCEPT
                 !.pc = "streaming", !.timer = "armed",
                 !.timerMs = IF Truthy(c.configTimeout)
                             THEN c.configTimeout.value
                             ELSE ChildDefaultTimeout]

\* After the stream: the timer is cleared, the result built and sent.
Finish(c) ==
    LET c1 == [c EXCEPT !.timer = ClearTimeout(@)]
        c2 == SendProgress(c1, "Finalizing...")
        c3 == SendProgress(c2, "Complete")
    IN  [SendResult(c3, CompletedResult(c2)) EXCEPT !.pc = "returned"]

\* Everything but the child process: no step of the child writes it.
supervisorVars ==
    <<maxConcurrent, maxNestedDepth, envDepth, spawnLimit, eventLimit,
      descriptors, requests, adapterVars, lastCall, slotVars>>

ChildRunning ==
    child.pc \notin {"none", "entry", "exited"} /\ child.exit = "none"

\* The module body of the entry, up to the first await of runSubagent: the
\* three entry checks, the handlers, Ready, sendProgress('Initializing
\* subagent...') and loadSettings, whose outcome is the collaborator's.
ChildEntry(settings) ==
    /\ child.pc = "entry"
    /\ child' =
           IF \/ child.env.mode # "true"
              \/ child.env.config.kind \in {"unset", "empty"}
              \/ child.env.config.kind # "json"
           THEN [child EXCEPT !.pc = "exited", !.exit = "1"]
           ELSE LET cfg == child.env.config.value
                    c0 == [child EXCEPT
                              !.contextFiles = cfg.contextFiles,
                              !.configTimeout =
                                  IF "timeout" \in DOMAIN cfg
                                  THEN cfg.timeout ELSE Undefined]
                    c1 == SendMessage(c0, [type |-> "ready"])
                    c2 == SendProgress(c1, "Initializing subagent...")
                IN  IF settings = "errors"
                    THEN [SendError(c2, "Settings errors: bad settings")
                             EXCEPT !.pc = "returned"]
                    ELSE IF settings = "throws"
                    THEN Catch(c2, "loadSettings failed")
                    ELSE [c2 EXCEPT !.pc = "loading"]
    /\ UNCHANGED supervisorVars

\* await parseArguments() and await loadCliConfig(...) are over: the model
\* override, sendProgress('Initializing AI client...'), config.initialize().
ChildLoaded(outcome) ==
    /\ ChildRunning
    /\ child.pc = "loading"
    /\ child' =
           IF outcome = "throws" THEN Catch(child, "loadCliConfig failed")
           ELSE [SendProgress(child, "Initializing AI client...")
                    EXCEPT !.pc = "initializing"]
    /\ UNCHANGED supervisorVars

\* await config.initialize() is over: sendProgress('Preparing task
\* context...'), then the context files if there are any, else the stream.
ChildInitialized(outcome, client) ==
    /\ ChildRunning
    /\ child.pc = "initializing"
    /\ child' =
           IF outcome = "throws" THEN Catch(child, "initialize failed")
           ELSE LET c1 == SendProgress(child, "Preparing task context...")
                IN  IF Len(child.contextFiles) > 0
                    THEN [c1 EXCEPT !.pc = "readingFiles",
                                    !.files = child.contextFiles]
                    ELSE BeginStream(c1, client)
    /\ UNCHANGED supervisorVars

\* await fs.readFile(filePath) is over, read or not; after the last file the
\* stream begins.
ChildReadFile(readable, client) ==
    /\ ChildRunning
    /\ child.pc = "readingFiles"
    /\ Len(child.files) > 0
    /\ LET filePath == Head(child.files)
           c1 == IF readable
                 THEN [child EXCEPT !.filesRead = Append(@, filePath),
                                    !.files = Tail(@)]
                 ELSE [child EXCEPT
                          !.errors =
                              Append(@, "Could not read context file "
                                            \o filePath),
                          !.files = Tail(@)]
       IN  child' = IF Len(c1.files) > 0 THEN c1 ELSE BeginStream(c1, client)
    /\ UNCHANGED supervisorVars

\* One event of the stream: the loop breaks when the signal is aborted,
\* else content is appended, a tool call reported, an error collected.
ChildStreamEvent(type) ==
    /\ ChildRunning
    /\ child.pc = "streaming"
    /\ child.streamed < MaxStreamEvents
    /\ LET c1 == [child EXCEPT !.streamed = @ + 1]
       IN  child' =
               IF child.aborted THEN Finish(c1)
               ELSE IF type = "content"
               THEN [c1 EXCEPT !.responseText = "Listed 3 files."]
               ELSE IF type = "tool_call_request"
               THEN SendProgress(c1, "Executing tool: read_file")
               ELSE [c1 EXCEPT !.errors = Append(@, "stream error")]
    /\ UNCHANGED supervisorVars

\* The stream is over.  When it is done the result is built; when it threw,
\* the finally block clears the timer and the catch block sends the failure.
ChildStreamOver(outcome) ==
    /\ ChildRunning
    /\ child.pc = "streaming"
    /\ child' =
           IF outcome = "done" THEN Finish(child)
           ELSE Catch([child EXCEPT !.timer = ClearTimeout(@)],
                      IF child.aborted THEN "The operation was aborted"
                      ELSE "fetch failed")
    /\ UNCHANGED supervisorVars

\* The child's own timer: abortController.abort().
ChildTimeout ==
    /\ ChildRunning
    /\ child.timer = "armed"
    /\ child' = [child EXCEPT !.timer = "fired", !.aborted = TRUE]
    /\ UNCHANGED supervisorVars

\* The handlers of SIGTERM, SIGINT, uncaughtException and
\* unhandledRejection: each sends an Error.
ProcessEventMessage(ev) ==
    IF ev = "SIGTERM" THEN "Subagent terminated by parent process"
    ELSE IF ev = "SIGINT" THEN "Subagent interrupted"
    ELSE "stray failure"

ChildProcessEvent(ev) ==
    /\ ChildRunning
    /\ child.events < MaxChildEvents
    /\ child' = [SendError(child, ProcessEventMessage(ev))
                    EXCEPT !.events = @ + 1]
    /\ UNCHANGED supervisorVars

\* The earliest 100 ms timer of sendResult or sendError: process.exit.
ChildExitTimer ==
    /\ ChildRunning
    /\ Len(child.exitTimers) > 0
    /\ child' = [child EXCEPT !.pc = "exited", !.exit = Head(child.exitTimers)]
    /\ UNCHANGED supervisorVars

NextChild ==
    \/ \E settings \in {"ok", "errors", "throws"} : ChildEntry(settings)
    \/ \E outcome \in {"ok", "throws"} : ChildLoaded(outcome)
    \/ \E outcome \in {"ok", "throws"}, client \in BOOLEAN :
           ChildInitialized(outcome, client)
    \/ \E readable \in BOOLEAN, client \in BOOLEAN :
           ChildReadFile(readable, client)
    \/ \E type \in {"content", "tool_call_request", "error"} :
           ChildStreamEvent(type)
    \/ \E outcome \in {"done", "throws"} : ChildStreamOver(outcome)
    \/ ChildTimeout
    \/ \E ev \in {"SIGTERM", "SIGINT", "uncaughtException",
                 "unhandledRejection"} : ChildProcessEvent(ev)
    \/ ChildExitTimer

\* A child process started for a descriptor with or without a timeout, with
\* or without context files, by the Supervisor or in an environment the
\* entry refuses.
InitChild ==
    /\ InitManager
    /\ maxConcurrent = DefaultMaxConcurrent
    /\ envDepth = 0
    /\ spawnLimit = 0
    /\ eventLimit = 0
    /\ descriptors = {}
    /\ requests = {}
    /\ \E d \in [timeout : {Undefined, Num(5000)},
                 contextFiles : {<<>>, <<"a.txt", "b.txt">>},
                 allowDestructive : {FALSE}] :
           child \in {ChildLaunched(d, LaunchedBySupervisor(d))}
                         \cup {ChildLaunched(d, env) : env \in RefusedLaunches(d)}

SpecChild == InitChild /\ [][NextChild]_vars

(***************************************************************************)
(* C1.  In every reachable state the number of entries of the active-agent *)
(* map is at most maxConcurrent.                                           *)
(***************************************************************************)
C1_ActiveCountWithinLimit == ActiveCount <= maxConcurrent

\* Two agents are active, the limit is reached and a further call was refused.
C1_Witness ==
    /\ ActiveCount = 2
    /\ ActiveCount = maxConcurrent
    /\ lastCall = ErrMaxConcurrent

C3_NeverRejected ==
    \A s \in Slots :
        Spawned(s) =>
            \/ IsPending(s)
            \/ IsFulfilled(s) /\ "success" \in DOMAIN promise[s].value

\* A process 'error' event was turned into a failed result.
C3_Witness ==
    \E s \in Slots :
        /\ promise[s] = Fulfilled(ProcessErrorResult(ProcessErrorMessage))
        /\ status[s] = FAILED

(***************************************************************************)
(* C4.  The result delivered for a spawn is the one built by the source    *)
(* that fired first; later sources never replace it.                       *)
(***************************************************************************)
C4_FirstSourceWins ==
    \A s \in Slots :
        promise[s] =
            IF firstFired[s] = NotFired THEN Pending
            ELSE Fulfilled(firstFired[s])

\* The timer fired first and the cancellation token later: the timeout
\* result stays.
C4_Witness ==
    \E s \in Slots :
        /\ timeoutId[s] = "fired"
        /\ abortSignal[s] = "fired"
        /\ promise[s] = Fulfilled(TimeoutResult)

(***************************************************************************)
(* C5.  Once the promise of a spawn is resolved, a resolution source of    *)
(* that spawn firing again (a second terminal message, the exit event, the *)
(* token, an error) changes neither the delivered result, nor the status   *)
(* of the record, nor the active-agent map.                                *)
(***************************************************************************)
C5_LateSourcesAreNoOps ==
    [][\A s \in Slots :
          (IsFulfilled(s) /\ SourceFires(s)) =>
              /\ promise'[s] = promise[s]
              /\ status'[s] = status[s]
              /\ activeAgents' = activeAgents]_vars

(***************************************************************************)
(* C6.  A spawnSubagent call made while getActiveCount() equals            *)
(* maxConcurrent throws the max-concurrent error and changes nothing: no   *)
(* process, no timer, no record, no queued request.                        *)
(***************************************************************************)
C6_RefusedAtConcurrencyLimit ==
    [][(GetActiveCount = maxConcurrent /\ SpawnCall) =>
           /\ lastCall' = ErrMaxConcurrent
           /\ UNCHANGED slotVars]_vars

\* The call was refused with both agents still active and nothing spawned
\* beyond them.
C6_Witness ==
    /\ lastCall = ErrMaxConcurrent
    /\ GetActiveCount = maxConcurrent
    /\ nSpawned = maxConcurrent
    /\ \A s \in Slots : Spawned(s) => proc[s] = "running"

(***************************************************************************)
(* C7.  A spawnSubagent call made in a process whose inherited depth       *)
(* equals maxNestedDepth throws the max-nesting-depth error and changes    *)
(* nothing: no process, no record.                                         *)
(***************************************************************************)
C7_RefusedAtNestingLimit ==
    [][(envDepth = maxNestedDepth /\ SpawnCall) =>
           /\ lastCall' = ErrMaxNestingDepth
           /\ UNCHANGED slotVars]_vars

\* A call was refused for depth in a process at the depth limit.
C7_Witness ==
    /\ envDepth = maxNestedDepth
    /\ lastCall = ErrMaxNestingDepth
    /\ nSpawned = 0

(***************************************************************************)
(* C8, as claimed.  A Result handled after Ready, before the timeout and   *)
(* before any other source resolved the spawn, resolves the promise with   *)
(* exactly that payload and lowers getActiveCount() by one.                *)
(***************************************************************************)
C8_ResultResolvesAndLowersCount ==
    [][\A s \in Slots, p \in Payloads :
          (/\ status[s] = RUNNING
           /\ timeoutId[s] # "fired"
           /\ IsPending(s)
           /\ OnMessage(s, ResultMsg(p))) =>
              /\ promise'[s] = Fulfilled(p)
              /\ GetActiveCount' = GetActiveCount - 1]_vars

(***************************************************************************)
(* C8, amended.  A Result handled while the spawn is pending resolves the  *)
(* promise with exactly that payload, and one handled later leaves the     *)
(* delivered result alone; getActiveCount() is one lower after the step    *)
(* exactly when a record was still registered under the agent's id, and    *)
(* no record is registered under it afterwards.                            *)
(***************************************************************************)
C8_ResultResolvesPendingSpawn ==
    [][\A s \in Slots, p \in Payloads :
          OnMessage(s, ResultMsg(p)) =>
              /\ promise'[s] = IF IsPending(s) THEN Fulfilled(p) ELSE promise[s]
              /\ GetActiveCount' =
                     IF activeAgents[agentId[s]] # NoAgent
                     THEN GetActiveCount - 1 ELSE GetActiveCount
              /\ activeAgents'[agentId[s]] = NoAgent]_vars

\* Ready, then Result: resolved with the payload, the only agent gone from
\* the map, the timer cleared and never fired.
C8_Witness ==
    \E s \in Slots :
        /\ progress[s] = "Working on task..."
        /\ status[s] = COMPLETED
        /\ promise[s] = Fulfilled(PayloadOk)
        /\ timeoutId[s] = "cleared"
        /\ GetActiveCount = 0

(***************************************************************************)
(* C9, as claimed.  When the timer fires the spawn resolves with the       *)
(* timeout result and the child process is no longer alive.                *)
(***************************************************************************)
C9_TimeoutLeavesNoProcess ==
    [][\A s \in Slots :
          OnTimeout(s) =>
              /\ promise'[s] = Fulfilled(TimeoutResult)
              /\ proc'[s] = "exited"]_vars

(***************************************************************************)
(* C9, amended.  When the timer fires the spawn resolves with success      *)
(* false and errors ["Timeout exceeded"]; by then the child process has    *)
(* been sent SIGTERM and its record is gone from the map; the process     *)
(* itself has not exited yet.                                              *)
(***************************************************************************)
C9_TimeoutSignalsProcess ==
    [][\A s \in Slots :
          OnTimeout(s) =>
              /\ promise'[s] = Fulfilled(TimeoutResult)
              /\ ~promise'[s].value.success
              /\ promise'[s].value.errors = <<"Timeout exceeded">>
              /\ sigterm'[s] = 1
              /\ activeAgents'[agentId[s]] = NoAgent]_vars

\* The timer fired on a child that had sent nothing terminal.
C9_Witness ==
    \E s \in Slots :
        /\ timeoutId[s] = "fired"
        /\ result[s] = NullResult
        /\ promise[s] = Fulfilled(TimeoutResult)
        /\ sigterm[s] = 1
        /\ proc[s] = "running"

(***************************************************************************)
(* C10.  When the cancellation token fires on a pending spawn, the promise *)
(* resolves with the cancelled result, the timer is cleared, the record is *)
(* Cancelled and out of the map, and the process has been sent SIGTERM.    *)
(***************************************************************************)
C10_CancellationResolves ==
    [][\A s \in Slots :
          (IsPending(s) /\ OnAbort(s)) =>
              /\ promise'[s] = Fulfilled(CancelledResult)
              /\ ~promise'[s].value.success
              /\ promise'[s].value.summary = "Subagent cancelled"
              /\ promise'[s].value.errors = <<"Cancelled by user">>
              /\ timeoutId'[s] = "cleared"
              /\ status'[s] = CANCELLED
              /\ activeAgents'[agentId[s]] = NoAgent
              /\ sigterm'[s] = 1]_vars

\* The token fired on a running agent before anything else resolved it.
C10_Witness ==
    \E s \in Slots :
        /\ abortSignal[s] = "fired"
        /\ promise[s] = Fulfilled(CancelledResult)
        /\ timeoutId[s] = "cleared"
        /\ status[s] = CANCELLED
        /\ sigterm[s] = 1
        /\ proc[s] = "running"

(***************************************************************************)
(* C11.  Every ToolRequest message handled for a spawn receives exactly    *)
(* one reply, which reaches the child; the reply is an approval if and     *)
(* only if the descriptor had allowDestructive true, and otherwise a       *)
(* denial carrying a reason.                                               *)
(***************************************************************************)
\* The reply sent in a step that handles a ToolRequest of spawn s.
ToolReplySent(s) == toolReplies'[s][Len(toolReplies'[s])]

\* The policy of the reply sent in a step that handles a ToolRequest.
ToolReplyFollowsDescriptor(s) ==
    /\ toolReplies'[s] = Append(toolReplies[s], ToolReplySent(s))
    /\ ToolReplySent(s).approved <=> allowDestructive[s]
    /\ ~ToolReplySent(s).approved =>
           /\ "reason" \in DOMAIN ToolReplySent(s)
           /\ ToolReplySent(s).reason = "Destructive tools not allowed"

C11_EveryToolRequestAnswered ==
    [][\A s \in Slots :
          OnMessage(s, ToolRequestMsg) =>
              /\ ToolReplyFollowsDescriptor(s)
              /\ ToolReplySent(s).reached]_vars

\* C11, amended: exactly one tool_response is sent per ToolRequest, with the
\* descriptor's policy; it reaches the child exactly when the channel has not
\* been disconnected by an earlier cleanup of the record.
C11_ToolRequestAnsweredWhileConnected ==
    [][\A s \in Slots :
          OnMessage(s, ToolRequestMsg) =>
              /\ ToolReplyFollowsDescriptor(s)
              /\ ToolReplySent(s).reached <=> connected[s]
              /\ \A o \in Slots \ {s} : toolReplies'[o] = toolReplies[o]]_vars

\* Two requests of a child spawned with allowDestructive were approved, and
\* both approvals reached it.
C11_Witness ==
    \E s \in Slots :
        /\ allowDestructive[s]
        /\ Len(toolReplies[s]) = 2
        /\ \A i \in 1..2 : toolReplies[s][i].approved /\ toolReplies[s][i].reached

(***************************************************************************)
(* C12.  killSubagent(id) on an active agent marks its record Cancelled    *)
(* and sends SIGTERM to its process without resolving the spawn promise;   *)
(* the promise stays pending until a resolution source fires, and the      *)
(* process-exit event resolves it.                                         *)
(***************************************************************************)
C12_KillDoesNotResolve ==
    /\ [][\A id \in Ids :
             (activeAgents[id] # NoAgent /\ KillSubagentCall(id)) =>
                 /\ IsPending(activeAgents[id])
                 /\ status'[activeAgents[id]] = CANCELLED
                 /\ sigterm'[activeAgents[id]] = sigterm[activeAgents[id]] + 1
                 /\ activeAgents'[id] = NoAgent
                 /\ promise' = promise]_vars
    /\ [][\A s \in Slots :
             (IsPending(s) /\ promise'[s] # Pending) => SourceFires(s)]_vars
    /\ [][\A s \in Slots : \A e \in ExitEvents :
             (IsPending(s) /\ OnExit(s, e)) =>
                 promise'[s] = Fulfilled(ExitResult(e.code, e.signal))]_vars

\* killSubagent ran on an active agent and nothing has resolved its spawn;
\* and, later, the exit caused by the signal resolved it.
C12_Witness ==
    \E s \in Slots :
        /\ status[s] = CANCELLED
        /\ sigterm[s] = 1
        /\ proc[s] = "exited"
        /\ abortSignal[s] # "fired"
        /\ promise[s] = Fulfilled(TerminatedResult("SIGTERM"))

(***************************************************************************)
(* C13.  The result the Supervisor builds for a spawn failure, a signal    *)
(* kill, a non-zero exit, a timeout or a cancellation has success false    *)
(* and a non-empty errors list, and the spawn is resolved with it, never   *)
(* rejected.                                                               *)
(***************************************************************************)
\* A result with success false and at least one entry in errors.
WellFormedFailure(r) ==
    /\ ~r.success
    /\ "errors" \in DOMAIN r
    /\ Len(r.errors) >= 1

\* The 'exit' events of a signal kill or a non-zero exit code.
FailureExits == {e \in ExitEvents : e.signal # "null" \/ e.code # "0"}

\* One of the five infrastructure outcomes happens to spawn s.
InfrastructureOutcome(s) ==
    \/ OnTimeout(s)
    \/ OnAbort(s)
    \/ OnError(s)
    \/ \E e \in FailureExits : OnExit(s, e)

C14_SignalExitNamesSignal ==
    [][\A s \in Slots : \A e \in ExitEvents :
          (IsPending(s) /\ OnExit(s, e)) =>
              /\ e.signal # "null" =>
                     /\ promise'[s].state = "fulfilled"
                     /\ ~promise'[s].value.success
                     /\ promise'[s].value.summary = "Subagent was terminated"
                     /\ promise'[s].value.errors =
                            <<"Process terminated: " \o e.signal>>
              /\ (e.signal = "null" /\ e.code # "0") =>
                     /\ promise'[s].state = "fulfilled"
                     /\ ~promise'[s].value.success
                     /\ promise'[s].value.errors =
                            <<"Process exited with code " \o e.code>>]_vars

(***************************************************************************)
(* C15.  When the child exits with code 0 and nothing has resolved the     *)
(* spawn (no terminal message was received), the spawn resolves with       *)
(* success true, the generic summary of a child that completed without     *)
(* returning a result, and no errors list.                                 *)
(***************************************************************************)
CleanExit == [code |-> "0", signal |-> "null"]

C15_CleanExitWithoutResultIsSuccess ==
    [][\A s \in Slots :
          (IsPending(s) /\ OnExit(s, CleanExit)) =>
              /\ result[s] = NullResult
              /\ promise'[s].state = "fulfilled"
              /\ promise'[s].value.success
              /\ promise'[s].value.summary = "Subagent completed"
              /\ promise'[s].value.details =
                     "The subagent process completed but did not return a result."
              /\ "errors" \notin DOMAIN promise'[s].value]_vars

\* A child that became ready and then exited cleanly without a Result.
C15_Witness ==
    \E s \in Slots :
        /\ status[s] = RUNNING
        /\ proc[s] = "exited"
        /\ promise[s].state = "fulfilled"
        /\ promise[s].value.success
        /\ promise[s].value.summary = "Subagent completed"

(***************************************************************************)
(* C16.  On every resolution path the agent's record is out of the         *)
(* active-agent map by the time the spawn promise is resolved: a resolved  *)
(* spawn is never counted by getActiveCount() nor returned by              *)
(* listActive().                                                           *)
(***************************************************************************)
C16_ResolvedSpawnIsNotActive ==
    /\ \A s \in Slots : IsFulfilled(s) => s \notin ListActive
    /\ GetActiveCount = Cardinality(ListActive)
    /\ GetActiveCount <= Cardinality({s \in Slots : Spawned(s) /\ IsPending(s)})

\* Of two delegations one was resolved by its Result and is gone from the
\* map while the other is still active.
C16_Witness ==
    \E s, o \in Slots :
        /\ promise[s] = Fulfilled(PayloadOk)
        /\ IsPending(o)
        /\ ListActive = {o}
        /\ GetActiveCount = 1

(***************************************************************************)
(* C17.  For every caller-supplied env map, also one that names the        *)
(* reserved keys, the child's environment has the mode flag "true", the    *)
(* depth counter at the parent's depth + 1 and the config variable equal   *)
(* to the serialized descriptor; for every other key the caller's entry    *)
(* overrides the inherited one.                                            *)
(***************************************************************************)
C17_ReservedKeysProtected ==
    [][\A d \in descriptors :
          (/\ SpawnSubagent(FreshId, d.abort, d.destructive, d.env)
           /\ lastCall' = "admitted") =>
              /\ childEnv'[nSpawned'][SUBAGENT_MODE_ENV_VAR] = "true"
              /\ childEnv'[nSpawned'][SUBAGENT_DEPTH_ENV_VAR] =
                     DepthString(envDepth + 1)
              /\ childEnv'[nSpawned'][SUBAGENT_CONFIG_ENV_VAR] =
                     SerializedConfig(d.destructive)
              /\ \A k \in EnvKeys \ ReservedKeys :
                     childEnv'[nSpawned'][k] =
                         IF d.env[k] # Unset THEN d.env[k]
                         ELSE ProcessEnv(envDepth)[k]]_vars

(***************************************************************************)
(* C18.  Along a chain of nested delegations each child runs at its        *)
(* parent's depth + 1 and no process is created at a depth greater than    *)
(* maxNestedDepth; with the default maxNestedDepth of 1 a child agent      *)
(* never spawns a grandchild.                                              *)
(***************************************************************************)
\* The depth the child of spawn s reads from its environment.
ChildDepth(s) == ParseDepth(childEnv[s][SUBAGENT_DEPTH_ENV_VAR])

TimeoutOutOfRange(v) ==
    v.kind = "number" /\ (v.value < MinTimeout \/ v.value > MaxTimeout)

C19_OutOfRangeTimeoutRejected ==
    [][\A r \in requests :
          (/\ TimeoutOutOfRange(r.params.timeout)
           /\ Execute(r.params, r.signal)) =>
              /\ toolResults'[0].kind = "returned"
              /\ toolResults'[0].summary = "Invalid parameters"
              /\ UNCHANGED <<lastConfig, lastCall, slotVars>>]_vars

(***************************************************************************)
(* C20.  For every request with allowDestructive true the allow-list of    *)
(* the descriptor passed to the Supervisor is the list it would have       *)
(* without the flag plus exactly edit, write_file and shell, each of the   *)
(* three occurring exactly once, also when the request already named it.   *)
(***************************************************************************)
\* The elements of a list, and how often one occurs in it.
Elements(list) == {list[i] : i \in 1..Len(list)}
Occurrences(x, list) == Cardinality({i \in 1..Len(list) : list[i] = x})

C20_DestructiveToolsAddedOnce ==
    [][\A r \in requests :
          (/\ r.params.allowDestructive
           /\ ValidateToolParams(r.params) = NoError
           /\ Execute(r.params, r.signal)) =>
              /\ lastConfig'.kind = "config"
              /\ Elements(lastConfig'.allowedTools) =
                     Elements(BuildConfig([r.params EXCEPT
                                  !.allowDestructive = FALSE]).allowedTools)
                         \cup Elements(DestructiveTools)
              /\ \A t \in Elements(DestructiveTools) :
                     Occurrences(t, lastConfig'.allowedTools) = 1]_vars


C22_ReadOnlyWithoutAllowDestructive ==
    (lastConfig # NoConfig /\ ~lastConfig.allowDestructive) =>
        Elements(lastConfig.allowedTools) \cap Elements(DestructiveTools) = {}


NonTerminalFrame(s) ==
    /\ promise' = promise
    /\ activeAgents' = activeAgents
    /\ timeoutId' = timeoutId
    /\ result' = result
    /\ firstFired' = firstFired
    /\ proc' = proc
    /\ sigterm' = sigterm
    /\ connected' = connected
    /\ \A t \in Slots \ {s} : status'[t] = status[t] /\ progress'[t] = progress[t]

\* The claim as stated.
C27_ReadyOnlyMovesStartingToRunning ==
    [][\A s \in Slots, m \in Messages :
           (m.type \notin {"result", "error"} /\ OnMessage(s, m)) =>
               /\ NonTerminalFrame(s)
               /\ m.type = "ready" =>
                      /\ status'[s] =
                             IF status[s] = STARTING THEN RUNNING ELSE status[s]
                      /\ progress'[s] = progress[s]
               /\ m.type = "progress" =>
                      /\ status'[s] = status[s]
                      /\ progress'[s] = m.message
               /\ m.type \in {"log", "tool_request"} =>
                      /\ status'[s] = status[s]
                      /\ progress'[s] = progress[s]]_vars

\* The claim as amended.
C27_NonTerminalMessagesOnlyUpdateRecord ==
    [][\A s \in Slots, m \in Messages :
           (m.type \notin {"result", "error"} /\ OnMessage(s, m)) =>
               /\ NonTerminalFrame(s)
               /\ m.type = "ready" =>
                      /\ status'[s] = RUNNING
                      /\ progress'[s] = "Working on task..."
               /\ m.type = "progress" =>
                      /\ status'[s] = status[s]
                      /\ progress'[s] = m.message
               /\ m.type \in {"log", "tool_request"} =>
                      /\ status'[s] = status[s]
                      /\ progress'[s] = progress[s]]_vars

\* A child sent Ready and then Progress; its spawn is still pending, its
\* record active and its timer armed as at the spawn.
C27_Witness ==
    \E s \in Slots :
        /\ Spawned(s)
        /\ status[s] = RUNNING
        /\ progress[s] \notin {"Initializing...", "Working on task..."}
        /\ promise[s] = Pending
        /\ activeAgents[agentId[s]] = s
        /\ timeoutId[s] = "armed"


(***************************************************************************)
(* C23.  In every lifetime of the child agent that gets past the entry     *)
(* checks, exactly one terminal message (Result or Error) is sent: never   *)
(* a second one, whatever the interleaving of the run, the child's timer,  *)
(* signals and stray failures, and one by the time the process exits.      *)
(***************************************************************************)
\* The terminal messages sent so far, in order.
TerminalsSent ==
    SelectSeq(child.outbox, LAMBDA m : m.type \in {"result", "error"})

\* The process got past the entry checks once it has sent a message.
C23_ExactlyOneTerminalMessage ==
    (child.pc \notin {"none", "entry"} /\ Len(child.outbox) > 0) =>
        /\ Len(TerminalsSent) <= 1
        /\ child.pc \in {"returned", "exited"} => Len(TerminalsSent) = 1


(***************************************************************************)
(* C24.  The child process exits with code 0 only if it reported success:  *)
(* its terminal message was a Result with success true and no Error was    *)
(* sent.  In every other case (a failed Result, an Error, entry refused    *)
(* for the mode, a missing descriptor or malformed JSON) it exits with 1.  *)
(***************************************************************************)
C24_ExitCodeReflectsReport ==
    LET \* The child reported success and nothing else.
        ReportedSuccess ==
            /\ Len(TerminalsSent) > 0
            /\ \A i \in 1..Len(TerminalsSent) :
                   /\ TerminalsSent[i].type = "result"
                   /\ TerminalsSent[i].payload.success
    IN  (child.pc = "exited") =>
            child.exit = IF ReportedSuccess THEN "0" ELSE "1"


(***************************************************************************)
(* C28.  In every run of the child agent Ready is the first message sent,  *)
(* the Progress milestones follow in the order init, client ready,         *)
(* context prepared, executing, finalizing, complete, and no Ready or      *)
(* Progress message is sent after a terminal message.                      *)
(***************************************************************************)
C28_ReadyThenMilestonesThenTerminal ==
    LET Milestones ==
            <<"Initializing subagent...", "Initializing AI client...",
              "Preparing task context...", "Executing task...",
              "Finalizing...", "Complete">>
        \* The milestones sent so far, in order.
        MilestonesSent ==
            SelectSeq(child.outbox,
                      LAMBDA m : m.type = "progress"
                                     /\ m.message \in Elements(Milestones))
    IN  (child.pc \notin {"none", "entry"} /\ Len(child.outbox) > 0) =>
            /\ child.outbox[1].type = "ready"
            /\ \A i \in 2..Len(child.outbox) : child.outbox[i].type # "ready"
            /\ Len(MilestonesSent) <= Len(Milestones)
            /\ \A i \in 1..Len(MilestonesSent) :
                   MilestonesSent[i].message = Milestones[i]
            /\ \A i \in 1..Len(child.outbox), j \in 1..Len(child.outbox) :
                   (i < j /\ child.outbox[i].type \in {"result", "error"}) =>
                       child.outbox[j].type \notin {"ready", "progress"}


(***************************************************************************)
(* C29.  The child agent's abort timer is armed for the timeout of the     *)
(* descriptor it was spawned with: for T when the descriptor has           *)
(* timeout = T, for 300000 only when the descriptor has no timeout.        *)
(***************************************************************************)
C29_ChildTimerFollowsDescriptor ==
    (child.pc # "none" /\ child.timer # "none") =>
        child.timerMs =
            IF Truthy(child.descriptor.timeout)
            THEN child.descriptor.timeout.value
            ELSE ChildDefaultTimeout

(***************************************************************************)
(* C30.  Every Result the child agent builds has success false whenever    *)
(* its errors list is non-empty; the Result of a completed run has success *)
(* true exactly when no error was collected and carries the collected      *)
(* errors, and the Result of the catch block has success false and the     *)
(* exception message as its only error.                                    *)
(***************************************************************************)
\* The Result messages sent so far.
ResultsSent == SelectSeq(child.outbox, LAMBDA m : m.type = "result")

C30_ResultSuccessAgreesWithErrors ==
    (child.pc # "none") =>
        \A i \in 1..Len(ResultsSent) :
            LET r == ResultsSent[i].payload
            IN  /\ HasErrors(r) => ~r.success
                /\ IF r.summary = "Subagent failed with an error"
                   THEN /\ ~r.success
                        /\ Len(r.errors) = 1
                        /\ r.errors[1] = r.details
                   ELSE /\ r.success <=> Len(child.errors) = 0
                        /\ r.success <=> ~HasErrors(r)
                        /\ HasErrors(r) => r.errors = child.errors

\* A completed run sent a failed Result carrying the error of an unreadable
\* context file and a stream error.
C30_Witness ==
    /\ child.pc # "none"
    /\ Len(ResultsSent) = 1
    /\ ResultsSent[1].payload.summary # "Subagent failed with an error"
    /\ ~ResultsSent[1].payload.success
    /\ Len(ResultsSent[1].payload.errors) = 2


(***************************************************************************)
(* C31.  A context file that cannot be read does not abort the child       *)
(* agent: one error naming the file is recorded, the remaining files are   *)
(* still read and the run goes on to the model client.  As stated: the     *)
(* run still ends with a Result whose errors list contains that file's     *)
(* error.  As amended: it does when the run completes; the Result of the   *)
(* catch block carries the exception message only, and without a model     *)
(* client the run ends with an Error.                                      *)
(***************************************************************************)
\* The claim as stated, for runs that no signal or stray failure disturbs
\* and that end with a Result.
C31_ResultAlwaysCarriesFileError ==
    (/\ child.pc \in {"returned", "exited"}
     /\ child.events = 0
     /\ Len(TerminalsSent) = 1
     /\ TerminalsSent[1].type = "result") =>
        \A f \in Elements(child.contextFiles) :
            ("Could not read context file " \o f) \in Elements(child.errors)
                => ("Could not read context file " \o f)
                       \in Elements(TerminalsSent[1].payload.errors)

\* The claim as amended.
C31_UnreadableFileDoesNotAbort ==
    [][(child.pc # "none") =>
           /\ \A client \in BOOLEAN :
                  ChildReadFile(FALSE, client) =>
                      /\ child'.errors =
                             Append(child.errors,
                                    "Could not read context file "
                                        \o Head(child.files))
                      /\ child'.files = Tail(child.files)
                      /\ child'.filesRead = child.filesRead
                      /\ IF Len(child'.files) > 0
                         THEN /\ child'.pc = "readingFiles"
                              /\ child'.outbox = child.outbox
                         ELSE IF client
                         THEN /\ child'.pc = "streaming"
                              /\ child'.timer = "armed"
                         ELSE /\ child'.pc = "returned"
                              /\ child'.outbox[Len(child'.outbox)].type
                                     = "error"
           /\ (/\ Len(child'.outbox) > Len(child.outbox)
               /\ child'.outbox[Len(child'.outbox)].type = "result"
               /\ child'.outbox[Len(child'.outbox)].payload.summary
                      # "Subagent failed with an error") =>
                  \A i \in 1..Len(child.errors) :
                      /\ HasErrors(child'.outbox[Len(child'.outbox)].payload)
                      /\ child.errors[i] \in
                             Elements(child'.outbox[Len(child'.outbox)]
                                          .payload.errors)]_vars

\* The first context file could not be read, the second was, and the run
\* completed with a Result that carries the first file's error.
C31_Witness ==
    /\ child.pc = "returned"
    /\ child.filesRead = <<"b.txt">>
    /\ Len(TerminalsSent) = 1
    /\ TerminalsSent[1].type = "result"
    /\ TerminalsSent[1].payload.summary # "Subagent failed with an error"
    /\ TerminalsSent[1].payload.errors =
           <<"Could not read context file a.txt">>


(***************************************************************************)
(* C32.  killAll() marks every agent that was active when it was called    *)
(* Cancelled, sends each of them SIGTERM exactly once and leaves the       *)
(* active-agent map empty, although killSubagent deletes entries while the *)
(* map is being iterated; it resolves no spawn promise and leaves the      *)
(* agents that were not active alone.                                      *)
(***************************************************************************)
C32_KillAllCancelsEveryActiveAgent ==
    [][KillAll =>
           /\ \A id \in Ids : activeAgents'[id] = NoAgent
           /\ \A s \in Slots :
                  IF Spawned(s) /\ activeAgents[agentId[s]] = s
                  THEN /\ status'[s] = CANCELLED
                       /\ sigterm[s] = 0
                       /\ sigterm'[s] = 1
                       /\ connected'[s] = FALSE
                  ELSE /\ status'[s] = status[s]
                       /\ sigterm'[s] = sigterm[s]
                       /\ connected'[s] = connected[s]
           /\ promise' = promise
           /\ proc' = proc]_vars

\* Two agents were active and pending, and after killAll both are Cancelled,
\* signalled once and gone from the map, their promises still pending.
C32_Witness ==
    /\ nSpawned = 2
    /\ \A id \in Ids : activeAgents[id] = NoAgent
    /\ \A s \in 1..2 :
           /\ status[s] = CANCELLED
           /\ sigterm[s] = 1
           /\ promise[s] = Pending
           /\ timeoutId[s] = "armed"
    /\ eventCount = 0


(***************************************************************************)
(* C33: the number of child processes that were launched and have not yet  *)
(* exited never exceeds maxConcurrent, also when a kill, a timeout or a    *)
(* cancellation is followed by new spawnSubagent calls before the          *)
(* terminated processes have exited.                                       *)
(***************************************************************************)
C33_LiveProcessesWithinLimit ==
    Cardinality({s \in Slots : proc[s] = "running"}) <= maxConcurrent


(***************************************************************************)
(* C34: a spawn whose cancellation token had already fired when            *)
(* spawnSubagent was called is never settled with anything but the         *)
(* cancelled result, and by then its child process has been sent the       *)
(* termination signal.                                                     *)
(***************************************************************************)
C34_AbortedTokenResolvesCancelled ==
    \A s \in Slots :
        (Spawned(s) /\ abortSignal[s] = "aborted" /\ promise[s] # Pending) =>
            /\ promise[s].state = "fulfilled"
            /\ promise[s].value.summary = CancelledResult.summary
            /\ promise[s].value.errors = CancelledResult.errors
            /\ sigterm[s] >= 1


(***************************************************************************)
(* C35: the events of one spawn (its timer, its token firing, its process  *)
(* exiting) remove only that spawn's own record and signal only that       *)
(* spawn's own process, also when another spawn uses the same id.          *)
(***************************************************************************)
C35_EventsTouchOnlyOwnSpawn ==
    [][\A s \in Slots :
           (OnTimeout(s) \/ OnAbort(s) \/ \E e \in ExitEvents : OnExit(s, e)) =>
               /\ \A t \in Slots \ {s} :
                      /\ sigterm'[t] = sigterm[t]
                      /\ status'[t] = status[t]
               /\ \A id \in Ids :
                      activeAgents'[id] # activeAgents[id] =>
                          activeAgents[id] = s]_vars


(***************************************************************************)
(* C36: at the step that settles a spawn's promise the record's status is  *)
(* terminal and agrees with the delivered result: completed only for a     *)
(* successful result, cancelled for the timeout and the cancelled result,  *)
(* failed or cancelled for the other failures; never starting or running.  *)
(***************************************************************************)
C36_StatusTerminalAtResolution ==
    [][\A s \in Slots :
           (promise[s] = Pending /\ promise'[s] # Pending) =>
               /\ promise'[s].state = "fulfilled"
               /\ status'[s] \in {COMPLETED, FAILED, CANCELLED}
               /\ status'[s] = COMPLETED => promise'[s].value.success
               /\ promise'[s].value.summary \in
                      {TimeoutResult.summary, CancelledResult.summary}
                      => status'[s] = CANCELLED
               /\ ~promise'[s].value.success
                      => status'[s] \in {FAILED, CANCELLED}]_vars


(***************************************************************************)
(* C37: at the step that settles a spawn its child process has already     *)
(* exited, has been sent a termination signal by the Supervisor, or has    *)
(* sent the terminal message after which it schedules its own exit: no     *)
(* process is left running without a record and without a timer.           *)
(***************************************************************************)
C37_ResolvedSpawnLeavesNoProcess ==
    [][\A s \in Slots :
           (promise[s] = Pending /\ promise'[s] # Pending) =>
               \/ proc'[s] = "exited"
               \/ sigterm'[s] >= 1
               \/ \E m \in Messages :
                      /\ m.type \in {"result", "error"}
                      /\ OnMessage(s, m)]_vars


(***************************************************************************)
(* C38: every descriptor SubagentTool.execute passes to the Supervisor has *)
(* a numeric timeout within [1000, 600000]; for a request whose timeout is *)
(* omitted, zero or not a number it is the default 300000.                 *)
(***************************************************************************)
C38_DescriptorTimeoutWithinRange ==
    lastConfig # NoConfig =>
        /\ lastConfig.timeout.kind = "number"
        /\ lastConfig.timeout.value >= MinTimeout
        /\ lastConfig.timeout.value <= MaxTimeout
        /\ \A r \in requests :
               (\/ r.params.timeout.kind # "number"
                \/ r.params.timeout = Num(0)) =>
                   lastConfig.timeout = Num(DefaultTimeout)

=============================================================================
